---- MODULE Spec2Model ----
(***************************************************************************)
(* Model of speedtest.py: the run controller (main), the configuration     *)
(* custody swap, the location catalog (get_locations), the resume set      *)
(* (load_tested_nodes) and the per-location cycle (test_and_record_speed). *)
(*                                                                         *)
(* The filesystem, the result files, the VPN process and the output of     *)
(* list-locations outlive a run; everything else is state of one process.  *)
(* A KeyboardInterrupt is delivered while the main thread is in a step of  *)
(* the try body of main or in the disconnect call of a cycle.  A Crash is  *)
(* the process being killed: no handler runs and buffered output is lost.  *)
(***************************************************************************)
EXTENDS Integers, Sequences, FiniteSets, TLC

\* ---------------------------------------------------------------- bounds
MaxLines == 2
MaxRuns == 2

\* ------------------------------------------------------------ directories
\* A directory is the sequence of the contents found by descending into the
\* sub-directory named adguardvpn-cli; <<>> is a path that does not exist.
Absent == <<>>

Exists(d) == d # Absent

\* shutil.move(src, dst) on directories: a rename when dst does not exist, a
\* move INTO dst when dst is a directory, shutil.Error when dst already holds
\* an entry with the name of src.
MoveRaises(src, dst) == Len(dst) >= 2

MoveDst(src, dst) == IF dst = Absent THEN src ELSE dst \o src

\* ------------------------------------------------------------ result files
FileNames == {"f1", "f2", "new"}

LocFields == {"ISO", "Country", "City", "Ping Estimate"}

BaseFields == {"download", "upload", "ping"}

\* what speedtest's results.dict() may hold: the library decides the keys
ResultSets == {BaseFields, BaseFields \cup {"share"}}

HdrLine(cols) == [t |-> "hdr", iso |-> "", city |-> "", cols |-> cols]

RowLine(iso, city, cols) == [t |-> "row", iso |-> iso, city |-> city, cols |-> cols]

NoFile == [ex |-> FALSE, lines |-> <<>>, bad |-> 0]

\* bad = k > 0: reading the file raises when it reaches line k
GoodFile(lines) == [ex |-> TRUE, lines |-> lines, bad |-> 0]

BadFile(lines, k) == [ex |-> TRUE, lines |-> lines, bad |-> k]

OldHdr == LocFields \cup BaseFields

\* ------------------------------------------------------- list-locations
IsoCodes == {"US", "DE"}

Digits == {"12", "40", "55"}

OutLines ==
  { [code |-> "US", city |-> "New York", gap |-> 2, ping |-> "12"],
    [code |-> "US", city |-> "Los Angeles", gap |-> 2, ping |-> "40"],
    [code |-> "DE", city |-> "Berlin", gap |-> 3, ping |-> "55"],
    [code |-> "ISO", city |-> "CITY", gap |-> 1, ping |-> "PING"] }

RECURSIVE SeqsUpTo(_, _)
SeqsUpTo(S, n) ==
  IF n = 0 THEN {<<>>}
  ELSE LET shorter == SeqsUpTo(S, n - 1)
       IN shorter \cup {Append(s, x) : s \in {q \in shorter : Len(q) = n - 1}, x \in S}

\* list-locations prints a location once
Outputs ==
  {s \in SeqsUpTo(OutLines, MaxLines) :
     \A i, j \in 1..Len(s) : s[i] = s[j] => i = j}

\* location_pattern: two capitals, fields parted by two or more blanks, a
\* decimal ping at the end of the line
Matches(l) == l.code \in IsoCodes /\ l.gap >= 2 /\ l.ping \in Digits

Location(l) == [ISO |-> l.code, City |-> l.city, Ping |-> l.ping]

\* ParseLocations without the test of line 64: every line is a location
ParseLocationsKeepsAll(out) == [k \in 1..Len(out) |-> Location(out[k])]

RECURSIVE ParseLocations(_)
ParseLocations(out) ==
  IF out = <<>> THEN <<>>
  ELSE IF Matches(Head(out))
       THEN <<Location(Head(out))>> \o ParseLocations(Tail(out))
       ELSE ParseLocations(Tail(out))

\* ------------------------------------------------------------ run_command
\* ok: stdout is returned (with check=False whatever the exit status was);
\* cpe: CalledProcessError, re-raised; exit: FileNotFoundError turned into
\* sys.exit(1); err: any other exception, re-raised.
RunCommand(check, bin) ==
  IF ~bin THEN {"exit"}
  ELSE IF check THEN {"ok", "cpe", "err"} ELSE {"ok", "err"}

ExcOf(o) == IF o = "exit" THEN "SystemExit" ELSE "Exception"

\* ------------------------------------------------------------------ state
VARIABLES
  dest,        \* /root/.local/share/adguardvpn-cli
  backup,      \* /root/.local/share/adguardvpn-cli.bak
  files,       \* the adguard_speedtest_results_*.csv files of the directory
  latest,      \* the file os.path.getmtime ranks highest, "none" without one
  output,      \* what list-locations prints
  binPresent,  \* ADGUARD_CLI_PATH can be executed (settled as the try body starts)
  pc,          \* where the process is
  active,      \* RESULTS_CSV_FILE
  tested,      \* tested_nodes
  isNew,       \* is_new_file[0]
  fieldnames,  \* writer.fieldnames
  locs,        \* all_locations
  idx,         \* position of the loop in all_locations, from 1
  buf,         \* lines written to f and not yet flushed
  fopen,       \* main is inside "with open(RESULTS_CSV_FILE, 'a')"
  proxy,       \* socket.socket is socks.socksocket
  res,         \* speed_results, {} when empty
  pending,     \* the exception the finally of the cycle re-raises
  caught,      \* the exception that ended the try body of main
  exitCode,    \* exit status of the process, -1 while it runs
  runs,        \* processes started so far
  preDest,     \* dest as it was when the process started
  preBackup,   \* backup as it was when the process started
  ran,         \* what this run has done outside the cycles
  cyc,         \* the location of the latest loop pass and what the pass did
  attempts     \* the locations this run tried to connect to, in order

world == <<dest, backup, files, latest, output>>
handle == <<files, latest, buf, fopen>>
locals == <<active, tested, isNew, fieldnames, locs, idx, res, pending>>
vars == <<world, binPresent, pc, locals, buf, fopen, proxy, caught, exitCode,
          runs, preDest, preBackup, ran, cyc, attempts>>

Ran(e) == ran' = ran \cup {e}

Cyc(e) == cyc' = [cyc EXCEPT !.ev = @ \cup {e}]

NoCycle == [i |-> 0, ev |-> {}]

\* ------------------------------------------------------------------- Init
InitFiles ==
  LET hdr == HdrLine(OldHdr)
      us == RowLine("US", "New York", OldHdr)
      de == RowLine("DE", "Berlin", OldHdr)
      none == [n \in FileNames |-> NoFile]
  IN { <<none, "none">>,
       <<[none EXCEPT !["f1"] = GoodFile(<<>>)], "f1">>,
       <<[none EXCEPT !["f1"] = GoodFile(<<hdr, us>>)], "f1">>,
       <<[none EXCEPT !["f1"] = BadFile(<<hdr, us>>, 1)], "f1">>,
       <<[none EXCEPT !["f1"] = BadFile(<<hdr, de, us>>, 3)], "f1">>,
       <<[none EXCEPT !["f1"] = GoodFile(<<hdr, de>>), !["f2"] = GoodFile(<<hdr, us>>)], "f2">> }

Init ==
  /\ dest \in {Absent, <<"orig">>}
  /\ backup \in {Absent, <<"stale">>}
  /\ \E fl \in InitFiles : files = fl[1] /\ latest = fl[2]
  /\ output \in Outputs
  /\ binPresent = TRUE
  /\ runs = 1
  /\ preDest = dest
  /\ preBackup = backup
  /\ pc = "start"
  /\ active = "new"
  /\ tested = {}
  /\ isNew = FALSE
  /\ fieldnames = {}
  /\ locs = <<>>
  /\ idx = 1
  /\ buf = <<>>
  /\ fopen = FALSE
  /\ proxy = FALSE
  /\ res = {}
  /\ pending = "none"
  /\ caught = "none"
  /\ exitCode = -1
  /\ ran = {}
  /\ cyc = NoCycle
  /\ attempts = <<>>

\* ------------------------------------------------------- leaving the body
FlushTo(fs, a, b) == [fs EXCEPT ![a].lines = @ \o b]

Goto(p) ==
  /\ pc' = p
  /\ UNCHANGED <<caught, handle>>

\* LeaveBody with the cleanup in an else clause: an exception skips it
LeaveBodySkipsCleanup(k) ==
  /\ pc' = IF k = "none" THEN "release" ELSE "exited"
  /\ caught' = k
  /\ files' = IF fopen THEN FlushTo(files, active, buf) ELSE files
  /\ latest' = IF fopen /\ buf # <<>> THEN active ELSE latest
  /\ buf' = <<>>
  /\ fopen' = FALSE

\* Control leaves the try body of main, by the exception k or at its end
\* ("none"); the with statement closes f on the way, which writes out what
\* is buffered.
LeaveBody(k) ==
  /\ pc' = "release"
  /\ caught' = k
  /\ files' = IF fopen THEN FlushTo(files, active, buf) ELSE files
  /\ latest' = IF fopen /\ buf # <<>> THEN active ELSE latest
  /\ buf' = <<>>
  /\ fopen' = FALSE

\* sys.exit(1) before the try statement
ExitNow(code) ==
  /\ pc' = "exited"
  /\ exitCode' = code

\* ------------------------------------------------------------ preconditions
CheckPrivilege ==
  /\ pc = "start"
  /\ \E root \in BOOLEAN :
       IF root THEN pc' = "principal" /\ UNCHANGED <<exitCode, ran>>
       ELSE ExitNow(1) /\ Ran("fatal_privilege")
  /\ UNCHANGED <<world, binPresent, locals, buf, fopen, proxy, caught, runs,
                 preDest, preBackup, cyc, attempts>>

CheckPrincipal ==
  /\ pc = "principal"
  /\ \E user \in BOOLEAN :
       IF user THEN pc' = "source" /\ UNCHANGED <<exitCode, ran>>
       ELSE ExitNow(1) /\ Ran("fatal_principal")
  /\ UNCHANGED <<world, binPresent, locals, buf, fopen, proxy, caught, runs,
                 preDest, preBackup, cyc, attempts>>

CheckSourceConfig ==
  /\ pc = "source"
  /\ \E isdir \in BOOLEAN :
       IF isdir
       THEN /\ pc' = "acq_move"
            /\ binPresent' \in BOOLEAN
            /\ UNCHANGED exitCode
            /\ Ran("try")
       ELSE ExitNow(1) /\ UNCHANGED binPresent /\ Ran("fatal_source")
  /\ UNCHANGED <<world, locals, buf, fopen, proxy, caught, runs, preDest, preBackup,
                 cyc, attempts>>

\* ---------------------------------------------------------------- acquire
AcquireMove ==
  /\ pc = "acq_move"
  /\ IF ~Exists(dest)
     THEN Goto("acq_copy") /\ UNCHANGED <<dest, backup, ran>>
     ELSE IF MoveRaises(dest, backup)
          THEN LeaveBody("Exception") /\ UNCHANGED <<dest, backup>> /\ Ran("move_failed")
          ELSE /\ Goto("acq_copy")
               /\ backup' = MoveDst(dest, backup)
               /\ dest' = Absent
               /\ Ran("moved")
  /\ UNCHANGED <<output, binPresent, locals, proxy, exitCode, runs, preDest, preBackup, cyc,
                 attempts>>

\* copytree either completes or raises part of the way
AcquireCopy ==
  /\ pc = "acq_copy"
  /\ \E done \in BOOLEAN :
       IF done
       THEN Goto("setmode") /\ dest' = <<"src">> /\ Ran("copied")
       ELSE LeaveBody("Exception") /\ dest' = <<"partial">> /\ Ran("copy_failed")
  /\ UNCHANGED <<backup, output, binPresent, locals, proxy, exitCode, runs, preDest, preBackup,
                 cyc, attempts>>

\* ------------------------------------------------------- mode and catalog
\* SetMode with the result of the command ignored
SetModeUnchecked ==
  /\ pc = "setmode"
  /\ \E o \in RunCommand(TRUE, binPresent) :
       /\ IF o \in {"ok", "cpe"} THEN Goto("list") ELSE LeaveBody(ExcOf(o))
       /\ Ran("setmode_" \o o)
  /\ UNCHANGED <<dest, backup, output, binPresent, locals, proxy, exitCode, runs,
                 preDest, preBackup, cyc, attempts>>

SetMode ==
  /\ pc = "setmode"
  /\ \E o \in RunCommand(TRUE, binPresent) :
       /\ IF o = "ok" THEN Goto("list") ELSE LeaveBody(ExcOf(o))
       /\ Ran("setmode_" \o o)
  /\ UNCHANGED <<dest, backup, output, binPresent, locals, proxy, exitCode, runs,
                 preDest, preBackup, cyc, attempts>>

\* GetLocations without the sys.exit(1) of line 70
GetLocationsReturnsEmpty ==
  /\ pc = "list"
  /\ \E o \in RunCommand(TRUE, binPresent) :
       IF o # "ok"
       THEN LeaveBody(ExcOf(o)) /\ UNCHANGED locs /\ Ran("list_" \o o)
       ELSE /\ Goto("load")
            /\ locs' = ParseLocations(output)
            /\ Ran(IF ParseLocations(output) = <<>> THEN "fatal_catalog" ELSE "catalog")
  /\ UNCHANGED <<dest, backup, output, binPresent, active, tested, isNew,
                 fieldnames, idx, res, pending, proxy, exitCode, runs, preDest, preBackup,
                 cyc, attempts>>

GetLocations ==
  /\ pc = "list"
  /\ \E o \in RunCommand(TRUE, binPresent) :
       IF o # "ok"
       THEN LeaveBody(ExcOf(o)) /\ UNCHANGED locs /\ Ran("list_" \o o)
       ELSE IF ParseLocations(output) = <<>>
            THEN LeaveBody("SystemExit") /\ UNCHANGED locs /\ Ran("fatal_catalog")
            ELSE Goto("load") /\ locs' = ParseLocations(output) /\ Ran("catalog")
  /\ UNCHANGED <<dest, backup, output, binPresent, active, tested, isNew,
                 fieldnames, idx, res, pending, proxy, exitCode, runs, preDest, preBackup,
                 cyc, attempts>>

\* ---------------------------------------------------------------- resume
\* csv.DictReader: the first line names the columns, every later line is a row
IsoOf(l) == IF l.t = "row" THEN l.iso ELSE "ISO"

Readable(f) == IF f.bad = 0 THEN Len(f.lines) ELSE f.bad - 1

ReadFails(f) == f.bad # 0

\* the rows the loop of load_tested_nodes adds before the read ends or raises
TestedFrom(f) ==
  IF Readable(f) = 0 \/ "ISO" \notin f.lines[1].cols THEN {}
  ELSE {IsoOf(f.lines[k]) : k \in 2..Readable(f)} \ {""}

\* LoadTestedNodes without the global statement of line 81: the assignment
\* of line 82 binds a local name
LoadTestedNodesKeepsPath ==
  /\ pc = "load"
  /\ IF latest = "none"
     THEN UNCHANGED tested /\ Ran("fresh")
     ELSE /\ tested' = TestedFrom(files[latest])
          /\ Ran(IF ReadFails(files[latest]) THEN "read_failed" ELSE "resumed")
  /\ Goto("open")
  /\ UNCHANGED <<dest, backup, output, binPresent, active, isNew, fieldnames, locs,
                 idx, res, pending, proxy, exitCode, runs, preDest, preBackup, cyc,
                 attempts>>

LoadTestedNodes ==
  /\ pc = "load"
  /\ IF latest = "none"
     THEN UNCHANGED <<active, tested>> /\ Ran("fresh")
     ELSE /\ active' = latest
          /\ tested' = TestedFrom(files[latest])
          /\ Ran(IF ReadFails(files[latest]) THEN "read_failed" ELSE "resumed")
  /\ Goto("open")
  /\ UNCHANGED <<dest, backup, output, binPresent, isNew, fieldnames, locs, idx,
                 res, pending, proxy, exitCode, runs, preDest, preBackup, cyc, attempts>>

\* IsNewFile that never looks at the file
IsNewFileAlways(f) == TRUE

\* line 197
IsNewFile(f) == ~f.ex \/ f.lines = <<>>

\* lines 197-209: open for append, then read the header of a file with content
OpenResults ==
  /\ pc = "open"
  /\ isNew' = IsNewFile(files[active])
  /\ IF IsNewFile(files[active])
     THEN /\ files' = [files EXCEPT ![active].ex = TRUE]
          /\ latest' = active
          /\ fopen' = TRUE
          /\ pc' = "loop"
          /\ UNCHANGED <<buf, caught, fieldnames>>
          /\ Ran("opened")
     ELSE IF files[active].bad = 1
          THEN LeaveBody("Exception") /\ UNCHANGED fieldnames
               /\ Ran("header_read_failed")
          ELSE /\ fieldnames' = files[active].lines[1].cols
               /\ fopen' = TRUE
               /\ pc' = "loop"
               /\ UNCHANGED <<files, latest, buf, caught>>
               /\ Ran("opened")
  /\ UNCHANGED <<dest, backup, output, binPresent, active, tested, locs, idx, res,
                 pending, proxy, exitCode, runs, preDest, preBackup, cyc, attempts>>

\* ------------------------------------------------------------------- loop
\* Loop with the position advanced by the cycle only: a location of the
\* resume set is looked at again and again
LoopSkipStays ==
  /\ pc = "loop"
  /\ IF idx > Len(locs)
     THEN LeaveBody("none") /\ UNCHANGED <<idx, cyc>> /\ Ran("loop_end")
     ELSE IF locs[idx].ISO \in tested
          THEN /\ Goto("loop")
               /\ cyc' = [i |-> idx, ev |-> {"skip"}]
               /\ UNCHANGED <<idx, ran>>
          ELSE /\ Goto("connect")
               /\ cyc' = [i |-> idx, ev |-> {}]
               /\ UNCHANGED <<idx, ran>>
  /\ UNCHANGED <<dest, backup, output, binPresent, active, tested, isNew,
                 fieldnames, locs, res, pending, proxy, exitCode, runs, preDest, preBackup,
                 attempts>>

Loop ==
  /\ pc = "loop"
  /\ IF idx > Len(locs)
     THEN LeaveBody("none") /\ UNCHANGED <<idx, cyc>> /\ Ran("loop_end")
     ELSE IF locs[idx].ISO \in tested
          THEN /\ Goto("loop")
               /\ idx' = idx + 1
               /\ cyc' = [i |-> idx, ev |-> {"skip"}]
               /\ UNCHANGED ran
          ELSE /\ Goto("connect")
               /\ cyc' = [i |-> idx, ev |-> {}]
               /\ UNCHANGED <<idx, ran>>
  /\ UNCHANGED <<dest, backup, output, binPresent, active, tested, isNew,
                 fieldnames, locs, res, pending, proxy, exitCode, runs, preDest, preBackup,
                 attempts>>

\* ------------------------------------------------------------------ cycle
\* Connect without the return of line 103
ConnectIgnoresFailure ==
  /\ pc = "connect"
  /\ \E o \in RunCommand(TRUE, binPresent) :
       /\ CASE o \in {"ok", "cpe"} -> Goto("install")
            [] OTHER -> LeaveBody(ExcOf(o))
       /\ Cyc("connect_" \o o)
  /\ attempts' = Append(attempts, idx)
  /\ res' = {}
  /\ UNCHANGED <<dest, backup, output, binPresent, active, tested, isNew,
                 fieldnames, locs, idx, pending, proxy, exitCode, runs, preDest, preBackup,
                 ran>>

Connect ==
  /\ pc = "connect"
  /\ \E o \in RunCommand(TRUE, binPresent) :
       /\ CASE o = "ok" -> Goto("install")
            [] o = "cpe" -> Goto("flush")
            [] OTHER -> LeaveBody(ExcOf(o))
       /\ Cyc("connect_" \o o)
  /\ attempts' = Append(attempts, idx)
  /\ res' = {}
  /\ UNCHANGED <<dest, backup, output, binPresent, active, tested, isNew,
                 fieldnames, locs, idx, pending, proxy, exitCode, runs, preDest, preBackup,
                 ran>>

\* lines 111-112
InstallProxy ==
  /\ pc = "install"
  /\ proxy' = TRUE
  /\ Goto("discover")
  /\ Cyc("proxy")
  /\ UNCHANGED <<dest, backup, output, binPresent, locals, exitCode, runs, preDest, preBackup,
                 ran, attempts>>

\* Discover without the except clause of line 132: the exception goes through
\* the finally block and on
DiscoverUncaught ==
  /\ pc = "discover"
  /\ \E ok \in BOOLEAN :
       IF ok THEN Goto("measure") /\ Cyc("speedtest") /\ UNCHANGED pending
       ELSE /\ Goto("restore")
            /\ pending' = "Exception"
            /\ cyc' = [cyc EXCEPT !.ev = @ \cup {"speedtest", "raised"}]
  /\ UNCHANGED <<dest, backup, output, binPresent, active, tested, isNew,
                 fieldnames, locs, idx, res, proxy, exitCode, runs, preDest, preBackup, ran,
                 attempts>>

\* Speedtest(), get_servers(), get_best_server(): an exception is caught at
\* line 132 and the finally block follows
Discover ==
  /\ pc = "discover"
  /\ \E ok \in BOOLEAN :
       IF ok THEN Goto("measure") /\ Cyc("speedtest")
       ELSE Goto("restore") /\ cyc' = [cyc EXCEPT !.ev = @ \cup {"speedtest", "raised"}]
  /\ UNCHANGED <<dest, backup, output, binPresent, locals, proxy, exitCode, runs,
                 preDest, preBackup, ran, attempts>>

\* download(), upload(), results.dict()
Measure ==
  /\ pc = "measure"
  /\ \E r \in ResultSets \cup {{}} :
       /\ res' = r
       /\ Cyc(IF r = {} THEN "raised" ELSE "measured")
  /\ Goto("restore")
  /\ UNCHANGED <<dest, backup, output, binPresent, active, tested, isNew,
                 fieldnames, locs, idx, pending, proxy, exitCode, runs, preDest, preBackup,
                 ran, attempts>>

\* RestoreSocket without the assignment of line 137
RestoreSocketKeepsProxy ==
  /\ pc = "restore"
  /\ Goto("disconnect")
  /\ UNCHANGED <<dest, backup, output, binPresent, locals, proxy, exitCode, runs,
                 preDest, preBackup, ran, cyc, attempts>>

\* lines 137-138
RestoreSocket ==
  /\ pc = "restore"
  /\ proxy' = FALSE
  /\ Goto("disconnect")
  /\ UNCHANGED <<dest, backup, output, binPresent, locals, exitCode, runs, preDest, preBackup,
                 ran, cyc, attempts>>

\* Disconnect without the run_command of line 141
DisconnectNotIssued ==
  /\ pc = "disconnect"
  /\ IF pending = "none" THEN Goto("record") ELSE LeaveBody(pending)
  /\ UNCHANGED <<dest, backup, output, binPresent, locals, proxy, exitCode, runs,
                 preDest, preBackup, ran, cyc, attempts>>

\* lines 140-141, then what the finally block was entered with
Disconnect ==
  /\ pc = "disconnect"
  /\ \E o \in RunCommand(FALSE, binPresent) :
       /\ IF o = "ok"
          THEN IF pending = "none" THEN Goto("record") ELSE LeaveBody(pending)
          ELSE LeaveBody(ExcOf(o))
       /\ Cyc("disconnect_" \o o)
  /\ UNCHANGED <<dest, backup, output, binPresent, locals, proxy, exitCode, runs,
                 preDest, preBackup, ran, attempts>>

FullResult(r) == LocFields \cup r

\* lines 143-151
Record ==
  /\ pc = "record"
  /\ IF res = {}
     THEN UNCHANGED <<fieldnames, isNew, buf, cyc>>
     ELSE LET fn == IF isNew THEN FullResult(res) ELSE fieldnames
              row == RowLine(locs[idx].ISO, locs[idx].City, fn)
          IN /\ fieldnames' = fn
             /\ isNew' = FALSE
             /\ buf' = buf \o (IF isNew THEN <<HdrLine(fn)>> ELSE <<>>) \o <<row>>
             /\ Cyc("row")
  /\ pc' = "flush"
  /\ UNCHANGED <<world, binPresent, active, tested, locs, idx, res, pending, fopen,
                 proxy, caught, exitCode, runs, preDest, preBackup, ran, attempts>>

\* Flush without the flush
FlushNothing ==
  /\ pc = "flush"
  /\ idx' = idx + 1
  /\ pc' = "loop"
  /\ UNCHANGED <<world, binPresent, active, tested, isNew, fieldnames, locs, res,
                 pending, buf, fopen, proxy, caught, exitCode, runs, preDest, preBackup, ran,
                 cyc, attempts>>

\* line 219
Flush ==
  /\ pc = "flush"
  /\ files' = FlushTo(files, active, buf)
  /\ latest' = IF buf # <<>> THEN active ELSE latest
  /\ buf' = <<>>
  /\ idx' = idx + 1
  /\ pc' = "loop"
  /\ UNCHANGED <<dest, backup, output, binPresent, active, tested, isNew,
                 fieldnames, locs, res, pending, fopen, proxy, caught, exitCode,
                 runs, preDest, preBackup, ran, cyc, attempts>>

\* ---------------------------------------------------------------- cleanup
\* nothing after the try body reads what the body computed
LocalsDead ==
  /\ active' = "new"
  /\ tested' = {}
  /\ isNew' = FALSE
  /\ fieldnames' = {}
  /\ locs' = <<>>
  /\ idx' = 1
  /\ res' = {}
  /\ pending' = "none"
  /\ cyc' = NoCycle
  /\ attempts' = <<>>

ReleasedDest(d, b) == IF Exists(b) THEN b ELSE Absent

\* lines 226-232: rmtree the destination, then move the backup back
Release ==
  /\ pc = "release"
  /\ dest' = ReleasedDest(dest, backup)
  /\ backup' = Absent
  /\ pc' = "final"
  /\ Ran("release")
  /\ LocalsDead
  /\ UNCHANGED <<files, latest, output, binPresent, buf, fopen, proxy, caught,
                 exitCode, runs, preDest, preBackup>>

\* the status main ends with once the last disconnect has returned or raised
ExitStatus(o) == IF o = "ok" THEN 0 ELSE 1

\* lines 234-236
FinalDisconnect ==
  /\ pc = "final"
  /\ \E o \in RunCommand(FALSE, binPresent) :
       /\ exitCode' = ExitStatus(o)
       /\ Ran("final_" \o o)
  /\ pc' = "exited"
  /\ UNCHANGED <<world, binPresent, locals, buf, fopen, proxy, caught, runs,
                 preDest, preBackup, cyc, attempts>>

\* ---------------------------------------------------- interrupt and crash
BodyPcs == {"acq_move", "acq_copy", "setmode", "list", "load", "open", "loop",
            "connect", "record", "flush", "disconnect"}

CycleTryPcs == {"install", "discover", "measure"}

Interrupt ==
  /\ pc \in BodyPcs \cup CycleTryPcs
  /\ IF pc \in CycleTryPcs
     THEN /\ pending' = "KeyboardInterrupt"
          /\ res' = {}
          /\ Goto("restore")
     ELSE LeaveBody("KeyboardInterrupt") /\ UNCHANGED <<pending, res>>
  /\ Ran("interrupt")
  /\ UNCHANGED <<dest, backup, output, binPresent, active, tested, isNew,
                 fieldnames, locs, idx, proxy, exitCode, runs, preDest, preBackup, cyc,
                 attempts>>

\* the memory of a process that is gone, as the next process starts with it
ProcGone ==
  /\ LocalsDead
  /\ buf' = <<>>
  /\ fopen' = FALSE
  /\ proxy' = FALSE
  /\ caught' = "none"

\* SIGKILL or power loss: no handler runs, what is buffered is lost
Crash ==
  /\ pc \in BodyPcs \cup CycleTryPcs \cup {"restore", "release", "final"}
  /\ pc' = "crashed"
  /\ exitCode' = 137
  /\ ProcGone
  /\ ran' = {"killed"}
  /\ binPresent' = TRUE
  /\ preDest' = Absent
  /\ preBackup' = Absent
  /\ UNCHANGED <<world, runs>>

NewRun ==
  /\ pc \in {"exited", "crashed"}
  /\ runs < MaxRuns
  /\ runs' = runs + 1
  /\ binPresent' = TRUE
  /\ preDest' = dest
  /\ preBackup' = backup
  /\ pc' = "start"
  /\ exitCode' = -1
  /\ ProcGone
  /\ ran' = {}
  /\ UNCHANGED world

Next ==
  \/ CheckPrivilege \/ CheckPrincipal \/ CheckSourceConfig
  \/ AcquireMove \/ AcquireCopy \/ SetMode \/ GetLocations
  \/ LoadTestedNodes \/ OpenResults \/ Loop
  \/ Connect \/ InstallProxy \/ Discover \/ Measure \/ RestoreSocket
  \/ Disconnect \/ Record \/ Flush
  \/ Release \/ FinalDisconnect
  \/ Interrupt \/ Crash \/ NewRun

Spec == Init /\ [][Next]_vars

\* the steps the process takes by itself: every call it makes blocks and
\* returns or raises, and the statement after it is then executed
Step ==
  \/ CheckPrivilege \/ CheckPrincipal \/ CheckSourceConfig
  \/ AcquireMove \/ AcquireCopy \/ SetMode \/ GetLocations
  \/ LoadTestedNodes \/ OpenResults \/ Loop
  \/ Connect \/ InstallProxy \/ Discover \/ Measure \/ RestoreSocket
  \/ Disconnect \/ Record \/ Flush
  \/ Release \/ FinalDisconnect

\* Spec with the process never stopping between two statements; Ctrl-C, a
\* kill and the start of another run may or may not happen
LiveSpec == Spec /\ WF_vars(Step)

\* ------------------------------------------------------------ properties
IsPrefix(a, b) == Len(a) <= Len(b) /\ \A k \in 1..Len(a) : a[k] = b[k]

\* the isoCodes of the data rows among lines
RecordedIsos(lines) == {lines[k].iso : k \in {j \in 1..Len(lines) : lines[j].t = "row"}}

\* the active file as a reader would find it once what is buffered is written
ActiveLines == files[active].lines \o buf

AfterCleanup == pc \in {"final", "exited"} /\ "release" \in ran

FinalIssued == ran \cap {"final_ok", "final_err", "final_exit"} # {}

\* C1: once release has run, the destination directory holds what it held
\* before acquire, and does not exist if it did not exist before acquire.
C1_CustodyRoundTrip == AfterCleanup => dest = preDest

\* C2: every exit of a run that entered custody acquisition (loop end,
\* KeyboardInterrupt, SystemExit, any other exception) comes after release,
\* which leaves no backup behind, and after the final disconnect command.
C2_CleanupOnEveryExit ==
  (pc = "exited" /\ "try" \in ran) =>
     /\ "release" \in ran
     /\ backup = Absent
     /\ FinalIssued

C2_Witness ==
  /\ pc = "exited"
  /\ "try" \in ran
  /\ caught = "SystemExit"
  /\ "fatal_catalog" \in ran
  /\ "final_ok" \in ran
  /\ dest = <<"orig">>

\* C3: with the prior file read without error, no connect is attempted for
\* a location whose isoCode is already in a row of the active result file,
\* and when the loop is over the recorded isoCodes are the resume set plus
\* isoCodes of locations outside the resume set that this run connected to.
C3_IdempotentResume ==
  "read_failed" \notin ran =>
     /\ pc = "connect" => locs[idx].ISO \notin RecordedIsos(ActiveLines)
     /\ (pc = "release" /\ "loop_end" \in ran) =>
          LET tried == {locs[attempts[k]].ISO : k \in 1..Len(attempts)}
          IN /\ tried \cap tested = {}
             /\ tested \subseteq RecordedIsos(ActiveLines)
             /\ RecordedIsos(ActiveLines) \subseteq tested \cup tried

\* C4: the socket redirection is installed only between the install step of
\* a cycle and the finally block of the same cycle: never between two
\* cycles, never once the loop is left, by whatever way the cycle ended.
C4_NoOrphanedProxy == proxy => pc \in {"discover", "measure", "restore"}

C4_Witness ==
  /\ pc = "release"
  /\ caught = "KeyboardInterrupt"
  /\ pending = "KeyboardInterrupt"
  /\ "proxy" \in cyc.ev
  /\ ~proxy

\* what follows a cycle that ended without leaving the try body of main:
\* line 219, then the loop at the next location
Continues ==
  \/ pc \in {"record", "flush"} /\ idx = cyc.i
  \/ pc \in {"loop", "release"} /\ idx = cyc.i + 1

\* C5: a connect that exits non-zero is all the cycle of that location does:
\* no proxy, no call of the measurement client, no row; the loop goes on
\* with the next location.
C5_SkipOnFailedConnect ==
  "connect_cpe" \in cyc.ev =>
     /\ cyc.ev = {"connect_cpe"}
     /\ ~proxy
     /\ buf = <<>>
     /\ caught = "none" => Continues

C5_Witness ==
  /\ "connect_cpe" \in cyc.ev
  /\ pc = "loop"
  /\ idx = cyc.i + 1
  /\ idx <= Len(locs)
  /\ locs[idx].ISO \notin tested

\* C6: an exception raised by discovery or measurement leaves no row for the
\* location and does not end the run: once the disconnect has returned the
\* loop goes on with the next location.  A row is written only in a cycle
\* whose connect succeeded and whose measurement completed.
C6_MeasurementFailureRecoverable ==
  /\ "raised" \in cyc.ev =>
       /\ res = {}
       /\ buf = <<>>
       /\ cyc.ev \cap {"row", "measured"} = {}
       /\ caught = "Exception" => "disconnect_err" \in cyc.ev
       /\ (caught = "none" /\ "disconnect_ok" \in cyc.ev) => Continues
  /\ "row" \in cyc.ev =>
       /\ {"connect_ok", "measured"} \subseteq cyc.ev
       /\ "raised" \notin cyc.ev

C6_Witness ==
  /\ "raised" \in cyc.ev
  /\ "disconnect_ok" \in cyc.ev
  /\ pc = "loop"
  /\ idx = cyc.i + 1
  /\ idx <= Len(locs)
  /\ locs[idx].ISO \notin tested

WellShaped(lines) ==
  lines # <<>> =>
     /\ lines[1].t = "hdr"
     /\ \A k \in 2..Len(lines) : lines[k].t = "row" /\ lines[k].cols = lines[1].cols

Written(n) == files[n].lines \o (IF n = active /\ fopen THEN buf ELSE <<>>)

HeaderKept == \A n \in FileNames : files[n].lines # <<>> => files'[n].lines[1] = files[n].lines[1]

\* C7: a result file starts with one header line, no later line is a header,
\* every row has exactly the columns of the header whatever fields the
\* measurement returned, and no step changes the header of a file that has one.
C7_HeaderStability ==
  /\ [](\A n \in FileNames : WellShaped(Written(n)))
  /\ [][HeaderKept]_vars

\* a measurement with a field the header of an older file lacks was recorded
C7_Witness ==
  /\ pc = "flush"
  /\ "share" \in res
  /\ files[active].lines # <<>>
  /\ buf # <<>>
  /\ buf[Len(buf)].cols = OldHdr
  /\ runs = 2

AppendOnly == \A n \in FileNames : IsPrefix(files[n].lines, files'[n].lines)

\* the unflushed lines are the row of the location in flight, with the header
\* when the row is the first of the file
InFlightOnly ==
  buf # <<>> =>
     /\ pc = "flush"
     /\ Len(buf) <= 2
     /\ buf[Len(buf)].t = "row"
     /\ buf[Len(buf)].iso = locs[idx].ISO
     /\ buf[Len(buf)].city = locs[idx].City
     /\ Len(buf) = 2 => buf[1].t = "hdr" /\ files[active].lines = <<>>

\* C8: no step, a crash included, removes or changes a line of a result
\* file; nothing is left unflushed when a connect is attempted, and what a
\* crash can lose is the row of the one location in flight.
C8_Durability ==
  /\ [](InFlightOnly /\ (pc = "connect" => buf = <<>>))
  /\ [][AppendOnly]_vars

\* the second location is about to be connected with the first one's row
\* of this run on disk
C8_Witness ==
  /\ pc = "connect"
  /\ attempts = <<1>>
  /\ idx = 2
  /\ files[active].lines # <<>>
  /\ files[active].lines[Len(files[active].lines)].city = locs[1].City
  /\ buf = <<>>

\* C9: when reading the chosen result file fails, the resume set is empty
\* and the run is not ended by reading that file again.
C9_UnreadableHistoryNonFatal ==
  "read_failed" \in ran =>
     /\ tested = {}
     /\ "header_read_failed" \notin ran

FatalPrecondition ==
  ran \cap {"fatal_privilege", "fatal_principal", "fatal_source", "fatal_catalog",
            "setmode_exit", "list_exit"} # {}

\* C10: a run that met a fatal precondition failure exits non-zero.
C10_FatalExitsNonZero == (pc = "exited" /\ FatalPrecondition) => exitCode # 0

\* C11: an exception the loop does not expect is caught at the top of main,
\* the cleanup block runs, and the process ends with a status other than 0.
C11_UnexpectedExceptionExitsNonZero ==
  (pc = "exited" /\ caught = "Exception") => ("release" \in ran /\ exitCode # 0)

\* the connect of the latest loop pass succeeded and no disconnect command
\* has been issued since
Connected ==
  "connect_ok" \in cyc.ev /\ cyc.ev \cap {"disconnect_ok", "disconnect_err"} = {}

IssuesConnect == Len(attempts') > Len(attempts)

\* C12: one location at a time: while a location is connected the process is
\* inside the cycle of that location (or has left the loop for good), and no
\* connect is issued until the disconnect command of that cycle was issued,
\* whether the measurement succeeded or failed.
C12_OneLocationAtATime ==
  /\ [](Connected => /\ pc \in {"install", "discover", "measure", "restore",
                                 "disconnect", "release"}
                     /\ idx = cyc.i)
  /\ [][IssuesConnect => (pc = "connect" /\ ~Connected)]_vars

\* a measured and disconnected location is followed by a location to connect
C12_Witness ==
  /\ pc = "loop"
  /\ {"connect_ok", "measured", "disconnect_ok"} \subseteq cyc.ev
  /\ idx = cyc.i + 1
  /\ idx <= Len(locs)
  /\ locs[idx].ISO \notin tested

\* C13: whenever a measurement cycle begins, the destination directory holds
\* a copy of the source configuration, and the backup directory, if there
\* is one, holds exactly what the destination held before acquire and
\* nothing else.
C13_CustodyDuringRun ==
  pc = "connect" =>
     /\ dest = <<"src">>
     /\ Exists(backup) => (Exists(preDest) /\ backup = preDest)

\* a fatal precondition has just ended the run: release has not run yet
Aborting == FatalPrecondition /\ "release" \notin ran

LoopNotEntered == ran \cap {"catalog", "opened"} = {} /\ attempts = <<>>

\* C14 as stated: a run that aborts on a fatal precondition (binary not
\* found, missing privilege, unidentifiable principal, source configuration
\* absent, empty catalog) has changed neither the destination nor the backup
\* path when it aborts, and has not entered the loop.
C14_AbortBeforeMutation ==
  Aborting => (dest = preDest /\ backup = preBackup /\ LoopNotEntered)

\* C14 amended: missing privilege, an unidentifiable principal and an absent
\* source configuration abort with status 1 before either path is touched;
\* a missing binary and an empty catalog abort inside the try body, after
\* acquire has displaced the destination and copied the source into it, with
\* release still to run; in all five cases the loop is not entered.
C14_AbortOrder ==
  Aborting =>
     /\ LoopNotEntered
     /\ IF "try" \in ran
        THEN /\ pc = "release"
             /\ caught = "SystemExit"
             /\ dest = <<"src">>
             /\ backup = IF Exists(preDest) THEN MoveDst(preDest, preBackup)
                         ELSE preBackup
        ELSE /\ pc = "exited"
             /\ exitCode = 1
             /\ dest = preDest
             /\ backup = preBackup

\* the catalog came back empty with the original configuration displaced
C14_Witness ==
  /\ pc = "release"
  /\ "fatal_catalog" \in ran
  /\ preDest = <<"orig">>
  /\ backup = <<"orig">>
  /\ dest = <<"src">>

\* C15: release on a system with neither the destination nor the backup
\* leaves both absent, and a release that follows a release at once changes
\* nothing: what the first one left at the destination is still there.
C15_ReleaseIdempotent ==
  /\ (pc = "release" /\ ~Exists(dest) /\ ~Exists(backup)) =>
        ReleasedDest(dest, backup) = Absent
  /\ (pc = "final" /\ "release" \in ran) =>
        (backup = Absent /\ ReleasedDest(dest, backup) = dest)

\* the steps of the try body that follow load_tested_nodes
AfterLoadPcs == {"open", "loop", "connect", "install", "discover", "measure",
                 "restore", "disconnect", "record", "flush"}

\* the file the run settled on: the one modified last, or one that does not
\* exist yet when there is no result file
ActiveIsLatest ==
  IF latest = "none" THEN active = "new" /\ \A n \in FileNames : ~files[n].ex
  ELSE active = latest /\ files[active].ex

OnlyActiveWritten ==
  \A n \in FileNames :
     files'[n] # files[n] => (n = active /\ pc \in AfterLoadPcs)

\* C16: the active file is the result file modified last, or a new file when
\* there is none, and no step of a run changes any other result file.
C16_OnlyActiveFileWritten ==
  /\ [](pc \in AfterLoadPcs => ActiveIsLatest)
  /\ [][OnlyActiveWritten]_vars

\* a row went to the newer of two files and the older one is as it was
C16_Witness ==
  /\ pc = "loop"
  /\ "row" \in cyc.ev
  /\ active = "f2"
  /\ Len(files["f2"].lines) = 3
  /\ files["f1"].ex
  /\ Len(files["f1"].lines) = 2

\* the positions of the lines of list-locations that match the pattern
MatchingLines == {j \in 1..Len(output) : Matches(output[j])}

\* the position in the output of the k-th matching line
NthMatching(k) ==
  CHOOSE j \in MatchingLines : Cardinality({m \in MatchingLines : m < j}) = k - 1

\* C17: the catalog is the matching lines of the output in their order, a
\* line that does not match gives no catalog entry, and the connects of a
\* run go through the catalog forwards: a later connect is for a later
\* entry, so no entry is connected to twice.
C17_DiscoveryOrderPreserved ==
  ("catalog" \in ran /\ "release" \notin ran) =>
     /\ Len(locs) = Cardinality(MatchingLines)
     /\ \A k \in 1..Len(locs) : locs[k] = Location(output[NthMatching(k)])
     /\ \A k \in 1..Len(attempts) : attempts[k] \in 1..Len(locs)
     /\ \A j, k \in 1..Len(attempts) : j < k => attempts[j] < attempts[k]

\* the only connect of the run so far is for the second line of the output,
\* the first one being a line that is no location
C17_Witness ==
  /\ pc = "install"
  /\ Len(output) = 2
  /\ ~Matches(output[1])
  /\ attempts = <<1>>
  /\ locs[1] = Location(output[2])

SetModeEvents == {"setmode_ok", "setmode_cpe", "setmode_err", "setmode_exit"}

CatalogEvents == {"list_cpe", "list_err", "list_exit", "fatal_catalog", "catalog"}

IssuesSetMode == (ran' \cap SetModeEvents) \ ran # {}

\* the run is at or past the catalog fetch
PastSetMode ==
  \/ pc \in {"list", "load"} \cup AfterLoadPcs
  \/ ran \cap (CatalogEvents \cup {"opened", "loop_end"}) # {}
  \/ attempts # <<>>

\* C18: the mode switch is issued once in a run, not again: the step that
\* issues it finds it not issued yet, the configuration copied and the
\* catalog not asked for; and a run is at the catalog fetch, in the loop or
\* at a connect only if the mode switch was issued and succeeded.
C18_SetModeOnceBeforeCatalog ==
  /\ [][IssuesSetMode => /\ pc = "setmode"
                         /\ ran \cap SetModeEvents = {}
                         /\ "copied" \in ran
                         /\ ran \cap CatalogEvents = {}
                         /\ attempts = <<>>]_vars
  /\ [](PastSetMode => "setmode_ok" \in ran)

\* a connect is about to be made, the original configuration being displaced
C18_Witness ==
  /\ pc = "connect"
  /\ {"moved", "copied", "setmode_ok", "catalog"} \subseteq ran

\* no two data rows of lines carry the same isoCode
UniqueIsos(lines) ==
  \A j, k \in 1..Len(lines) :
     (lines[j].t = "row" /\ lines[k].t = "row" /\ lines[j].iso = lines[k].iso) => j = k

\* C19: no result file ever holds two data rows with the same isoCode,
\* whatever the catalog and however the read of the prior file ended.
C19_UniqueIsoRows == \A n \in FileNames : UniqueIsos(files[n].lines)

\* every location of the catalog is in the resume set or was connected to
AllCyclesRun ==
  \A i \in 1..Len(locs) :
     locs[i].ISO \in tested \/ \E k \in 1..Len(attempts) : attempts[k] = i

\* C20: with every call returning or raising, a run that has started ends:
\* the process exits (or is killed, which no statement of it can answer).
\* A run that leaves the loop at its end has run the cycle of every location
\* outside the resume set; a process that has exited has no proxy installed
\* and, if it entered the try body, has been through release and the final
\* disconnect.
C20_Termination ==
  /\ []((pc = "release" /\ "loop_end" \in ran) => (caught = "none" /\ AllCyclesRun))
  /\ [](pc = "exited" =>
          /\ ~proxy
          /\ "try" \in ran => ("release" \in ran /\ FinalIssued)
          /\ ("loop_end" \in ran \/ caught # "none" \/ exitCode = 1))
  /\ (pc = "start") ~> (pc \in {"exited", "crashed"})

\* a run went through the whole catalog and ended after the cleanup block
C20_Witness ==
  /\ pc = "exited"
  /\ caught = "none"
  /\ {"catalog", "loop_end", "release", "final_ok"} \subseteq ran
  /\ exitCode = 0

====
